---------------------------- MODULE Spec2Model ----------------------------
(***************************************************************************)
(* Model of app.py, the Zoom attendance report analyzer: one upload event  *)
(* runs the script top to bottom (composite scan, metadata extraction,     *)
(* table loading, classification, deduplication, summary), and any         *)
(* exception ends the run in the handler of lines 180-182.                 *)
(*                                                                         *)
(* Text is modelled at token level: a line is a sequence of tokens, where  *)
(* SP is one whitespace character, BOM the byte-order mark U+FEFF, COMMA   *)
(* the separator, a digit or "-" one character of a number, and any other  *)
(* token a word without whitespace or comma at its ends.  strip, lstrip,   *)
(* startswith and split act on these sequences as the string methods act   *)
(* on characters.                                                          *)
(*                                                                         *)
(* Numbers are integers and the percent is kept in hundredths, computed    *)
(* exactly (round-half-even), where the code rounds a float.  The rows of  *)
(* the input catalogue have as many cells as the header has columns, so    *)
(* pd.read_csv pairs cells and columns by position.  Python's None, NaN    *)
(* and numbers are told apart, since the code's tests (truth value, == 0,  *)
(* >=, except ValueError) treat them differently.                          *)
(***************************************************************************)
EXTENDS Integers, Sequences, FiniteSets, TLC

\* ------------------------------------------------------------ bounds
MaxMeta == 2
MaxRows == 2
MaxScanLines == 5
MaxMetaLong == 3

\* ------------------------------------------------------------ text
SP == " "
BOM == "BOM"
COMMA == ","

RECURSIVE LStrip(_)
LStrip(s) == IF s # <<>> /\ Head(s) = SP THEN LStrip(Tail(s)) ELSE s

RECURSIVE RStrip(_)
RStrip(s) ==
    IF s # <<>> /\ s[Len(s)] = SP THEN RStrip(SubSeq(s, 1, Len(s) - 1)) ELSE s

Strip(s) == RStrip(LStrip(s))

RECURSIVE LStripBOM(_)
LStripBOM(s) == IF s # <<>> /\ Head(s) = BOM THEN LStripBOM(Tail(s)) ELSE s

StartsWith(s, p) == Len(s) >= Len(p) /\ SubSeq(s, 1, Len(p)) = p

RECURSIVE Split(_)
Split(s) ==
    IF \E i \in 1..Len(s) : s[i] = COMMA
    THEN LET i == CHOOSE k \in 1..Len(s) :
                     s[k] = COMMA /\ \A j \in 1..(k - 1) : s[j] # COMMA
         IN  <<SubSeq(s, 1, i - 1)>> \o Split(SubSeq(s, i + 1, Len(s)))
    ELSE <<s>>

StrippedParts(line) == LET p == Split(line) IN [i \in 1..Len(p) |-> Strip(p[i])]

\* ------------------------------------------------------------ literals
NameHeader == "Name (original name)"
EmailHeader == "Email"
DurationHeader == "Total duration (minutes)"
TableMarker == <<NameHeader, COMMA, EmailHeader>>
ZoomReportMarker == <<"Zoom Report">>
TopicMarker == <<"Topic", COMMA, "ID", COMMA, "Host">>

\* Variant of IsMarkerLine that also skips a byte-order mark.
IsMarkerLine_AfterBOM(line) == StartsWith(LStripBOM(Strip(line)), TableMarker)

\* Line 28: line.strip().startswith("Name (original name),Email")
IsMarkerLine(line) == StartsWith(Strip(line), TableMarker)

\* Variant of KeepTableLine without the "Zoom Report" test.
KeepTableLine_NoZoomFilter(line) == Strip(line) # <<>>

\* Line 36: line.strip() and not line.strip().startswith("Zoom Report")
KeepTableLine(line) ==
    Strip(line) # <<>> /\ ~StartsWith(Strip(line), ZoomReportMarker)

\* ------------------------------------------------------------ values
\* A Python scalar that may be None, NaN or a number.
None == [k |-> "none", v |-> 0]
NaN == [k |-> "nan", v |-> 0]
Num(n) == [k |-> "num", v |-> n]

\* bool(x): None and 0 are false, NaN and every other number are true.
Truthy(x) == x.k = "nan" \/ (x.k = "num" /\ x.v # 0)

\* A Python str-or-None, as dict.get returns it.
NoneStr == [k |-> "none", s |-> <<>>]
Str(s) == [k |-> "str", s |-> s]

Digits == {"0", "1", "2", "3", "4", "5", "6", "7", "8", "9"}

DigitVal(c) ==
    CASE c = "0" -> 0 [] c = "1" -> 1 [] c = "2" -> 2 [] c = "3" -> 3
      [] c = "4" -> 4 [] c = "5" -> 5 [] c = "6" -> 6 [] c = "7" -> 7
      [] c = "8" -> 8 [] c = "9" -> 9

IsDigits(s) == s # <<>> /\ \A i \in 1..Len(s) : s[i] \in Digits

RECURSIVE DecimalVal(_)
DecimalVal(s) ==
    IF s = <<>> THEN 0
    ELSE 10 * DecimalVal(SubSeq(s, 1, Len(s) - 1)) + DigitVal(s[Len(s)])

\* pd.to_numeric(text, errors='coerce') on integer-shaped text.
ToNumeric(s) ==
    IF IsDigits(s) THEN Num(DecimalVal(s))
    ELSE IF s # <<>> /\ Head(s) = "-" /\ IsDigits(Tail(s))
    THEN Num(0 - DecimalVal(Tail(s)))
    ELSE NaN

\* .fillna(0)
FillNa0(x) == IF x.k = "nan" THEN 0 ELSE x.v

\* datetime.strptime(text, "%m-%d-%Y %I:%M:%S %p") then
\* strftime('%Y-%m-%d %H:%M:%S'), on the timestamps of the input catalogue.
TimeFormatTable ==
    << <<"01-01-2024 09:00:00 AM", "2024-01-01 09:00:00">>,
       <<"01-01-2024 01:00:00 PM", "2024-01-01 13:00:00">> >>

Strptime(x) ==
    IF x.k = "none" THEN [exc |-> "TypeError", obj |-> ""]
    ELSE IF \E i \in 1..Len(TimeFormatTable) : x.s = <<TimeFormatTable[i][1]>>
    THEN [exc |-> "none",
          obj |-> TimeFormatTable[CHOOSE i \in 1..Len(TimeFormatTable) :
                                      x.s = <<TimeFormatTable[i][1]>>][2]]
    ELSE [exc |-> "ValueError", obj |-> ""]

\* ------------------------------------------------------------ inputs
StdHeaderLine ==
    <<NameHeader, COMMA, EmailHeader, COMMA, DurationHeader>>
AltEmailHeaderLine ==
    <<NameHeader, COMMA, EmailHeader, " address", COMMA, DurationHeader>>
RowBob45 == <<"Bob", COMMA, "bob@x.com", COMMA, "4", "5">>
RowBob10 == <<"Bob", COMMA, "bob@x.com", COMMA, "1", "0">>
RowCarol0 == <<"Carol", COMMA, COMMA, "0">>
RowCarolText == <<"Carol", COMMA, COMMA, "abc">>
RowDanNeg == <<"Dan", COMMA, "dan@x.com", COMMA, "-", "5">>

MetaHeaderFull ==
    <<BOM, "Topic", COMMA, "ID", COMMA, "Host", COMMA, "Duration (minutes)",
      COMMA, "Start time", COMMA, "End time">>
MetaHeaderShort == TopicMarker
MetaValues(dur, start) ==
    <<"Demo", COMMA, "123", COMMA, "Alice", COMMA>> \o dur
        \o <<COMMA, start, COMMA, "01-01-2024 01:00:00 PM">>
MetaValuesGood == MetaValues(<<"6", "0">>, "01-01-2024 09:00:00 AM")
MetaValuesText == MetaValues(<<"abc">>, "01-01-2024 09:00:00 AM")
MetaValuesZero == MetaValues(<<"0">>, "01-01-2024 09:00:00 AM")
MetaValuesBadTime == MetaValues(<<"6", "0">>, "2024-01-01 09:00")
MetaValuesShort == <<"Demo", COMMA, "123", COMMA, "Alice">>

ScanCat ==
    { <<>>, <<SP>>, StdHeaderLine, <<SP>> \o StdHeaderLine,
      <<BOM>> \o StdHeaderLine, RowBob45,
      <<"Zoom Report", SP, "2024">>, <<SP, "Zoom Report">> }

MetaCat ==
    { MetaHeaderFull, MetaHeaderShort, MetaValuesGood, MetaValuesText,
      MetaValuesZero, MetaValuesBadTime, MetaValuesShort }

MetaCatLong == MetaCat \cup { <<>>, <<BOM>> \o StdHeaderLine }

HeaderCat == { StdHeaderLine, AltEmailHeaderLine }

RowCat == { RowBob45, RowBob10, RowCarol0, RowCarolText, RowDanNeg }

Thresholds == {0, 75, 100}

SeqsUpTo(S, n) == UNION {[1..k -> S] : k \in 0..n}

TableBlocks ==
    { <<>> } \cup
    { <<h>> \o r : h \in HeaderCat, r \in SeqsUpTo(RowCat, MaxRows) }

Files == { m \o t : m \in SeqsUpTo(MetaCat, MaxMeta), t \in TableBlocks }

MetaFiles ==
    { m \o t : m \in SeqsUpTo(MetaCatLong, MaxMetaLong),
               t \in { <<>>, <<StdHeaderLine, RowBob45>> } }

ScanFiles == SeqsUpTo(ScanCat, MaxScanLines)

\* ------------------------------------------------------------ state
VARIABLES
    lines,                      \* file_content.splitlines()
    pc,                         \* the script's position
    idx,                        \* position of the scan loop in lines
    participant_data_started,
    meeting_info_lines,
    participant_data_lines,
    meeting_metadata,           \* sequence of [key, val], empty when unparsed
    meeting_duration_official,
    meeting_start_time_obj,
    meeting_end_time_obj,
    df_columns,                 \* column names of df, in order
    df,                         \* rows of df, in order
    reference_duration,
    min_attendance_percentage,
    total_participants,
    unique_participants_df,
    status_counts,              \* value_counts(): {<<status, count>>}
    shown,                      \* what the page displays so far
    raised                      \* the exception that ended the run, or "none"

scanVars == <<idx, participant_data_started, meeting_info_lines,
              participant_data_lines>>
metaVars == <<meeting_metadata, meeting_duration_official,
              meeting_start_time_obj, meeting_end_time_obj>>
tableVars == <<df_columns, df>>
analysisVars == <<reference_duration, min_attendance_percentage,
                  total_participants, unique_participants_df, status_counts>>

vars == <<lines, pc, scanVars, metaVars, tableVars, analysisVars, shown,
          raised>>

InitRest ==
    /\ pc = "scan"
    /\ idx = 1
    /\ participant_data_started = FALSE
    /\ meeting_info_lines = <<>>
    /\ participant_data_lines = <<>>
    /\ meeting_metadata = <<>>
    /\ meeting_duration_official = None
    /\ meeting_start_time_obj = ""
    /\ meeting_end_time_obj = ""
    /\ df_columns = <<>>
    /\ df = <<>>
    /\ reference_duration = None
    /\ min_attendance_percentage = 75
    /\ total_participants = 0
    /\ unique_participants_df = <<>>
    /\ status_counts = {}
    /\ shown = {}
    /\ raised = "none"

Init == lines \in Files /\ InitRest

InitMeta == lines \in MetaFiles /\ InitRest

InitScan == lines \in ScanFiles /\ InitRest

\* The handler of lines 180-182: the exception is shown and the run ends.
Fail(exc, displayed) ==
    /\ raised' = exc
    /\ shown' = shown \cup displayed \cup {"error"}
    /\ pc' = "done"

\* ------------------------------------------------------------ lines 27-37
ScanLine ==
    /\ pc = "scan"
    /\ idx <= Len(lines)
    /\ LET line == lines[idx] IN
       IF IsMarkerLine(line)
       THEN /\ participant_data_started' = TRUE
            /\ participant_data_lines' = Append(participant_data_lines, line)
            /\ UNCHANGED meeting_info_lines
       ELSE IF ~participant_data_started
       THEN /\ meeting_info_lines' = Append(meeting_info_lines, line)
            /\ UNCHANGED <<participant_data_started, participant_data_lines>>
       ELSE /\ participant_data_lines' =
                   IF KeepTableLine(line)
                   THEN Append(participant_data_lines, line)
                   ELSE participant_data_lines
            /\ UNCHANGED <<participant_data_started, meeting_info_lines>>
    /\ idx' = idx + 1
    /\ UNCHANGED <<lines, pc, metaVars, tableVars, analysisVars, shown, raised>>

ScanDone ==
    /\ pc = "scan"
    /\ idx > Len(lines)
    /\ pc' = "metadata"
    /\ UNCHANGED <<lines, scanVars, metaVars, tableVars, analysisVars, shown,
                   raised>>

\* ------------------------------------------------------------ lines 39-82
\* dict(zip(header_line_parts, data_line_parts))
DictZip(h, d) == [i \in 1..Len(h) |-> [key |-> h[i], val |-> d[i]]]

DictHas(m, key) == \E i \in 1..Len(m) : m[i].key = key

\* meeting_metadata.get(key): a later pair of the same key wins, as in a dict.
DictGet(m, key) ==
    IF DictHas(m, key)
    THEN Str(m[CHOOSE i \in 1..Len(m) :
                 m[i].key = key /\ \A j \in (i + 1)..Len(m) : m[j].key # key].val)
    ELSE NoneStr

\* The loop of lines 46-56 over the remaining lines.
RECURSIVE MetadataLoop(_, _, _)
MetadataLoop(ls, header_line_found, header_line_parts) ==
    IF ls = <<>> THEN <<>>
    ELSE LET line == LStripBOM(Strip(Head(ls))) IN
         IF StartsWith(line, TopicMarker)
         THEN MetadataLoop(Tail(ls), TRUE, StrippedParts(line))
         ELSE IF header_line_found /\ line # <<>>
         THEN LET data_line_parts == StrippedParts(line) IN
              IF Len(header_line_parts) = Len(data_line_parts)
              THEN DictZip(header_line_parts, data_line_parts)
              ELSE MetadataLoop(Tail(ls), header_line_found, header_line_parts)
         ELSE MetadataLoop(Tail(ls), header_line_found, header_line_parts)

ParseMetadata(ls) == MetadataLoop(ls, FALSE, <<>>)

\* pd.to_numeric(meeting_metadata.get('Duration (minutes)', 0), errors='coerce')
OfficialDuration(m) ==
    LET x == DictGet(m, <<"Duration (minutes)">>) IN
    IF x.k = "none" THEN Num(0) ELSE ToNumeric(x.s)

ExtractMetadata ==
    /\ pc = "metadata"
    /\ LET m == ParseMetadata(meeting_info_lines) IN
       /\ meeting_metadata' = m
       /\ IF m = <<>>
          THEN /\ shown' = shown \cup {"warn_metadata"}
               /\ meeting_duration_official' = None
               /\ meeting_start_time_obj' = ""
               /\ meeting_end_time_obj' = ""
               /\ pc' = "table"
               /\ UNCHANGED raised
          ELSE LET start == Strptime(DictGet(m, <<"Start time">>))
                   end == Strptime(DictGet(m, <<"End time">>))
                   exc == IF start.exc # "none" THEN start.exc ELSE end.exc
               IN
               /\ meeting_duration_official' = OfficialDuration(m)
               /\ IF exc = "none"
                  THEN /\ meeting_start_time_obj' = start.obj
                       /\ meeting_end_time_obj' = end.obj
                       /\ shown' = shown \cup {"overview", "times"}
                       /\ pc' = "table"
                       /\ UNCHANGED raised
                  ELSE IF exc = "ValueError"
                  THEN /\ meeting_start_time_obj' = ""
                       /\ meeting_end_time_obj' = ""
                       /\ shown' = shown \cup {"overview", "warn_times"}
                       /\ pc' = "table"
                       /\ UNCHANGED raised
                  ELSE /\ meeting_start_time_obj' =
                              IF start.exc = "none" THEN start.obj ELSE ""
                       /\ meeting_end_time_obj' = ""
                       /\ Fail(exc, {"overview"})
    /\ UNCHANGED <<lines, scanVars, tableVars, analysisVars>>

\* ------------------------------------------------------------ lines 85-103
NameColumn == <<"Name">>
EmailColumn == <<"User Email">>
DurationColumn == <<"Duration (Minutes)">>

\* pd.read_csv raises EmptyDataError on text without a header line.
ReadCsvFails(table_lines) == table_lines = <<>>

\* df.rename(columns={...}): other columns keep their names.
RenameColumn(c) ==
    IF c = <<NameHeader>> THEN NameColumn
    ELSE IF c = <<EmailHeader>> THEN EmailColumn
    ELSE IF c = <<DurationHeader>> THEN DurationColumn
    ELSE c

HasColumn(cols, name) == \E i \in 1..Len(cols) : cols[i] = name

ColumnIndex(cols, name) ==
    CHOOSE i \in 1..Len(cols) :
        cols[i] = name /\ \A j \in 1..(i - 1) : cols[j] # name

\* A cell of a parsed row; an empty cell (<<>>) is NaN.
Cell(cells, i) == IF i <= Len(cells) THEN cells[i] ELSE <<>>

\* pd.to_numeric(df['Duration (Minutes)'], errors='coerce').fillna(0)
CoerceDuration(cell) == FillNa0(ToNumeric(cell))

LoadTable ==
    /\ pc = "table"
    /\ IF ReadCsvFails(participant_data_lines)
       THEN /\ Fail("EmptyDataError", {})
            /\ UNCHANGED tableVars
       ELSE LET header == Split(Head(participant_data_lines))
                cols == [i \in 1..Len(header) |-> RenameColumn(header[i])]
                body == Tail(participant_data_lines)
            IN
            /\ df_columns' = cols
            /\ IF ~HasColumn(cols, DurationColumn)
               THEN /\ df' = [i \in 1..Len(body) |->
                                 [c |-> Split(body[i]), dur |-> 0,
                                  pct |-> None, status |-> ""]]
                    /\ Fail("KeyError", {"preview"})
               ELSE /\ df' = [i \in 1..Len(body) |->
                                 [c |-> Split(body[i]),
                                  dur |-> CoerceDuration(
                                      Cell(Split(body[i]),
                                           ColumnIndex(cols, DurationColumn))),
                                  pct |-> None, status |-> ""]]
                    /\ shown' = shown \cup {"preview", "success"}
                    /\ pc' = "settings"
                    /\ UNCHANGED raised
    /\ UNCHANGED <<lines, scanVars, metaVars, analysisVars>>

\* ------------------------------------------------------------ lines 105-115
\* df['Duration (Minutes)'].max(): NaN on an empty column.
MaxDuration(rows) ==
    IF rows = <<>> THEN NaN
    ELSE Num(CHOOSE d \in {rows[i].dur : i \in 1..Len(rows)} :
                 \A i \in 1..Len(rows) : rows[i].dur <= d)

ReferenceDuration(official, rows) ==
    LET r == IF Truthy(official) THEN official ELSE MaxDuration(rows) IN
    IF r = Num(0) THEN Num(1) ELSE r

Settings ==
    /\ pc = "settings"
    /\ reference_duration' = ReferenceDuration(meeting_duration_official, df)
    /\ \E t \in Thresholds : min_attendance_percentage' = t
    /\ pc' = "classify"
    /\ UNCHANGED <<lines, scanVars, metaVars, tableVars, total_participants,
                   unique_participants_df, status_counts, shown, raised>>

\* ------------------------------------------------------------ lines 117-128
\* Series.nunique(): NaN cells are not counted.
NUnique(rows, col) ==
    Cardinality({Cell(rows[i].c, col) : i \in 1..Len(rows)} \ {<<>>})

\* n / m rounded to the nearest integer, halves to the even one (m # 0).
RoundHalfEven(n, m) ==
    LET a == IF m < 0 THEN 0 - n ELSE n
        b == IF m < 0 THEN 0 - m ELSE m
        q == a \div b
        r == a % b
    IN  IF 2 * r < b THEN q
        ELSE IF 2 * r > b THEN q + 1
        ELSE IF q % 2 = 0 THEN q ELSE q + 1

\* (duration / reference_duration * 100).round(2), in hundredths of a percent.
AttendancePercent(dur, ref) ==
    IF ref.k = "num" THEN Num(RoundHalfEven(dur * 10000, ref.v)) ELSE NaN

\* x >= min_attendance_percentage; a comparison with NaN is false.
AtLeast(pct, threshold) == pct.k = "num" /\ pct.v >= 100 * threshold

\* Variant of AttendanceStatus without the override of line 128.
AttendanceStatus_NoOverride(dur, pct, threshold) ==
    IF AtLeast(pct, threshold) THEN "Full Attended" ELSE "Partial Attended"

\* Variant of AttendanceStatus comparing with > instead of >=.
AttendanceStatus_Strict(dur, pct, threshold) ==
    IF dur = 0 THEN "Did Not Attend"
    ELSE IF pct.k = "num" /\ pct.v > 100 * threshold THEN "Full Attended"
    ELSE "Partial Attended"

\* Lines 125-128: the percent rule, then the zero-duration override.
AttendanceStatus(dur, pct, threshold) ==
    LET byPercent == IF AtLeast(pct, threshold) THEN "Full Attended"
                     ELSE "Partial Attended"
    IN  IF dur = 0 THEN "Did Not Attend" ELSE byPercent

Classify ==
    /\ pc = "classify"
    /\ IF ~HasColumn(df_columns, EmailColumn)
          /\ ~HasColumn(df_columns, NameColumn)
       THEN /\ Fail("KeyError", {})
            /\ UNCHANGED <<df, total_participants>>
       ELSE /\ total_participants' =
                   IF HasColumn(df_columns, EmailColumn)
                   THEN NUnique(df, ColumnIndex(df_columns, EmailColumn))
                   ELSE NUnique(df, ColumnIndex(df_columns, NameColumn))
            /\ df' = [i \in 1..Len(df) |->
                        LET p == AttendancePercent(df[i].dur, reference_duration)
                        IN  [df[i] EXCEPT
                               !.pct = p,
                               !.status = AttendanceStatus(
                                   df[i].dur, p, min_attendance_percentage)]]
            /\ shown' = shown \cup {"total"}
            /\ pc' = "dedup"
            /\ UNCHANGED raised
    /\ UNCHANGED <<lines, scanVars, metaVars, df_columns, reference_duration,
                   min_attendance_percentage, unique_participants_df,
                   status_counts>>

\* ------------------------------------------------------------ lines 130-135
\* df.drop_duplicates(subset=[column]): the first row of each key is kept,
\* and NaN keys are equal to each other.
RECURSIVE DropDuplicatesFrom(_, _, _)
DropDuplicatesFrom(rows, col, seen) ==
    IF rows = <<>> THEN <<>>
    ELSE LET key == Cell(Head(rows).c, col) IN
         IF key \in seen THEN DropDuplicatesFrom(Tail(rows), col, seen)
         ELSE <<Head(rows)>>
                  \o DropDuplicatesFrom(Tail(rows), col, seen \cup {key})

DropDuplicates(rows, col) == DropDuplicatesFrom(rows, col, {})

\* df['User Email'].isnull().all()
AllNull(rows, col) == \A i \in 1..Len(rows) : Cell(rows[i].c, col) = <<>>

Deduplicate ==
    /\ pc = "dedup"
    /\ IF HasColumn(df_columns, EmailColumn)
          /\ AllNull(df, ColumnIndex(df_columns, EmailColumn))
       THEN IF HasColumn(df_columns, NameColumn)
            THEN /\ unique_participants_df' =
                        DropDuplicates(df, ColumnIndex(df_columns, NameColumn))
                 /\ shown' = shown \cup {"warn_email"}
                 /\ pc' = "summary"
                 /\ UNCHANGED raised
            ELSE /\ Fail("KeyError", {"warn_email"})
                 /\ UNCHANGED unique_participants_df
       ELSE IF HasColumn(df_columns, EmailColumn)
            THEN /\ unique_participants_df' =
                        DropDuplicates(df, ColumnIndex(df_columns, EmailColumn))
                 /\ pc' = "summary"
                 /\ UNCHANGED <<shown, raised>>
            ELSE /\ Fail("KeyError", {})
                 /\ UNCHANGED unique_participants_df
    /\ UNCHANGED <<lines, scanVars, metaVars, tableVars, reference_duration,
                   min_attendance_percentage, total_participants,
                   status_counts>>

\* ------------------------------------------------------------ lines 138-178
Statuses == {"Full Attended", "Partial Attended", "Did Not Attend"}

\* Series.value_counts(): a count for each value that occurs.
ValueCounts(rows) ==
    { <<s, Cardinality({i \in 1..Len(rows) : rows[i].status = s})>> :
        s \in {rows[i].status : i \in 1..Len(rows)} }

Summarize ==
    /\ pc = "summary"
    /\ IF HasColumn(df_columns, NameColumn)
          /\ HasColumn(df_columns, EmailColumn)
       THEN /\ status_counts' = ValueCounts(unique_participants_df)
            /\ shown' = shown \cup
                   {"detail", "total_metric", "pie", "histogram",
                    "mean_median", "export"}
                   \cup {c[1] : c \in ValueCounts(unique_participants_df)}
            /\ pc' = "done"
            /\ UNCHANGED raised
       ELSE /\ Fail("KeyError", {})
            /\ UNCHANGED status_counts
    /\ UNCHANGED <<lines, scanVars, metaVars, tableVars, reference_duration,
                   min_attendance_percentage, total_participants,
                   unique_participants_df>>

\* ------------------------------------------------------------ the run
NextScan == ScanLine \/ ScanDone

Next ==
    \/ ScanLine
    \/ ScanDone
    \/ ExtractMetadata
    \/ LoadTable
    \/ Settings
    \/ Classify
    \/ Deduplicate
    \/ Summarize

Spec == Init /\ [][Next]_vars

SpecMeta == InitMeta /\ [][Next]_vars

SpecScan == InitScan /\ [][NextScan]_vars

\* ------------------------------------------------------------ stages
ScanFinished == pc # "scan"

MetadataStepDone == pc \notin {"scan", "metadata"}

TableLoaded == pc \in {"settings", "classify", "dedup", "summary"}
                   \/ (pc = "done" /\ "success" \in shown)

ReferenceChosen == pc \in {"classify", "dedup", "summary"}
                       \/ (pc = "done" /\ "total" \in shown)

Classified == pc \in {"dedup", "summary"} \/ (pc = "done" /\ "total" \in shown)

DedupRan == pc = "summary" \/ (pc = "done" /\ "total" \in shown)

SummaryOutputs ==
    {"total", "detail", "total_metric", "pie", "histogram", "mean_median",
     "export"} \cup Statuses

\* ------------------------------------------------------------ claims

\* C1: once the rows are classified, for every threshold of the slider
\* (0 included), every row whose coerced duration is 0 has the status
\* "Did Not Attend": the zero-duration rule overrides the percent rule.
C1_ZeroDurationDidNotAttend ==
    Classified =>
        /\ \A i \in 1..Len(df) :
               df[i].dur = 0 => df[i].status = "Did Not Attend"
        /\ \A i \in 1..Len(unique_participants_df) :
               unique_participants_df[i].dur = 0
                   => unique_participants_df[i].status = "Did Not Attend"

\* C1 witness: threshold 0 (the percent rule alone would say "Full
\* Attended") and a classified row of duration 0 whose percent is 0.
C1_Witness ==
    /\ Classified
    /\ min_attendance_percentage = 0
    /\ \E i \in 1..Len(df) :
           /\ df[i].dur = 0
           /\ df[i].pct = Num(0)
           /\ df[i].status = "Did Not Attend"

\* C2: once the rows are classified, every row of duration > 0 carries the
\* percent duration / reference * 100 rounded to two decimals (NaN when the
\* reference is NaN), is "Full Attended" exactly when that percent is >= the
\* threshold, "Partial Attended" otherwise, and is never "Did Not Attend".
C2_FullIffPercentAtLeastThreshold ==
    Classified =>
        \A i \in 1..Len(df) :
            df[i].dur > 0 =>
                LET r == reference_duration
                    p == df[i].pct
                    err == p.v * r.v - 10000 * df[i].dur
                    abs(x) == IF x < 0 THEN 0 - x ELSE x
                    full == p.k = "num"
                              /\ p.v >= 100 * min_attendance_percentage
                IN  /\ r.k = "num" => p.k = "num" /\ 2 * abs(err) <= abs(r.v)
                    /\ r.k # "num" => p.k = "nan"
                    /\ df[i].status = "Full Attended" <=> full
                    /\ df[i].status = "Partial Attended" <=> ~full

\* C2 witness: a row whose percent equals the threshold exactly and is full,
\* beside a row below the threshold that is partial.
C2_Witness ==
    /\ Classified
    /\ \E i, j \in 1..Len(df) :
           /\ df[i].dur > 0
           /\ df[i].pct = Num(100 * min_attendance_percentage)
           /\ df[i].status = "Full Attended"
           /\ df[j].dur > 0
           /\ df[j].pct.k = "num"
           /\ df[j].pct.v % 100 # 0
           /\ df[j].pct.v < 100 * min_attendance_percentage
           /\ df[j].status = "Partial Attended"

\* C3: the reference duration is the official duration when the metadata is
\* populated and its 'Duration (minutes)' is a non-zero number, else the
\* maximum duration of the rows, else 1; it is always a non-zero number.
C3_ReferenceDurationDefinedNonZero ==
    ReferenceChosen =>
        LET x == DictGet(meeting_metadata, <<"Duration (minutes)">>)
            known == meeting_metadata # <<>> /\ x.k = "str"
                         /\ ToNumeric(x.s).k = "num"
            durs == {df[i].dur : i \in 1..Len(df)}
            top == CHOOSE d \in durs : \A e \in durs : e <= d
            expected == IF known /\ ToNumeric(x.s).v # 0 THEN ToNumeric(x.s).v
                        ELSE IF durs # {} /\ top # 0 THEN top
                        ELSE 1
        IN  reference_duration = Num(expected)

C5_TimestampsFailTogetherNonFatal ==
    LET start == DictGet(meeting_metadata, <<"Start time">>)
        end == DictGet(meeting_metadata, <<"End time">>)
        valid(x) == x.k = "str" /\ \E i \in 1..Len(TimeFormatTable) :
                                       x.s = <<TimeFormatTable[i][1]>>
    IN  (MetadataStepDone /\ meeting_metadata # <<>>
            /\ ~(valid(start) /\ valid(end))) =>
            /\ meeting_start_time_obj = ""
            /\ meeting_end_time_obj = ""
            /\ "warn_times" \in shown
            /\ raised # "TypeError"

\* C6: once the analysis reaches deduplication, the identity key is
\* 'User Email' if that column exists and is not empty in every row, else
\* 'Name'; no error is raised, and the deduplicated rows are the first row
\* of each key value, in input order.
C6_IdentityKeyFirstOccurrence ==
    DedupRan =>
        LET byEmail == HasColumn(df_columns, EmailColumn)
                          /\ ~AllNull(df, ColumnIndex(df_columns, EmailColumn))
            col == IF byEmail THEN ColumnIndex(df_columns, EmailColumn)
                   ELSE ColumnIndex(df_columns, NameColumn)
            key(i) == Cell(df[i].c, col)
            firsts == {i \in 1..Len(df) :
                          \A j \in 1..(i - 1) : key(j) # key(i)}
            nth(n) == CHOOSE i \in firsts :
                          Cardinality({j \in firsts : j <= i}) = n
        IN  /\ raised = "none"
            /\ unique_participants_df =
                   [n \in 1..Cardinality(firsts) |-> df[nth(n)]]

\* C7, on files with a single line starting with "Topic,ID,Host": the
\* metadata comes only from that line and the next non-empty line after it.
\* With different field counts the mapping stays empty (no later line is
\* tried), the warning is shown and there is no official duration; with
\* equal counts each name is paired with the value at its position.
C7_MetadataOnlyFromFirstPair ==
    LET norm(i) == LStripBOM(Strip(meeting_info_lines[i]))
        n == Len(meeting_info_lines)
        headers == {i \in 1..n : StartsWith(norm(i), TopicMarker)}
        h == CHOOSE i \in headers : TRUE
        later == {i \in 1..n : i > h /\ norm(i) # <<>>}
        v == CHOOSE i \in later : \A j \in later : i <= j
        names == StrippedParts(norm(h))
        values == StrippedParts(norm(v))
    IN  (MetadataStepDone /\ Cardinality(headers) = 1) =>
            IF later # {} /\ Len(names) = Len(values)
            THEN meeting_metadata =
                     [i \in 1..Len(names) |-> [key |-> names[i],
                                               val |-> values[i]]]
            ELSE /\ meeting_metadata = <<>>
                 /\ "warn_metadata" \in shown
                 /\ meeting_duration_official = None

\* C8: after the coercion every row's duration is a non-negative number,
\* and a source value that is blank or not a number is 0.
C8_DurationsNonNegative ==
    TableLoaded =>
        \A i \in 1..Len(df) :
            /\ df[i].dur >= 0
            /\ ToNumeric(Cell(df[i].c,
                   ColumnIndex(df_columns, DurationColumn))).k = "nan"
                   => df[i].dur = 0

\* C9: when the file has a marker line, after the scan the metadata block is
\* the lines before the first marker line, and the table block is that line
\* followed by every later line that is not blank and whose trimmed content
\* does not start with "Zoom Report", all in input order.
C9_ScanSplitsAtFirstMarker ==
    LET marker(i) == StartsWith(Strip(lines[i]), TableMarker)
        markers == {i \in 1..Len(lines) : marker(i)}
        m == CHOOSE i \in markers : \A j \in markers : i <= j
        kept(l) == Strip(l) # <<>> /\ ~StartsWith(Strip(l), ZoomReportMarker)
    IN  (ScanFinished /\ markers # {}) =>
            /\ meeting_info_lines = SubSeq(lines, 1, m - 1)
            /\ participant_data_lines =
                   <<lines[m]>>
                       \o SelectSeq(SubSeq(lines, m + 1, Len(lines)), kept)
            /\ Head(participant_data_lines) = lines[m]
            /\ \A k \in 1..Len(participant_data_lines) :
                   kept(participant_data_lines[k])

\* C9 witness: a finished scan with a metadata line before the marker, a
\* data row kept after it, and a "Zoom Report" line and a blank line after
\* the marker left out.
C9_Witness ==
    /\ ScanFinished
    /\ Len(meeting_info_lines) = 1
    /\ Len(participant_data_lines) = 2
    /\ Len(lines) = 5
    /\ \E i, j \in 3..5 :
           /\ StartsWith(Strip(lines[i]), ZoomReportMarker)
           /\ Strip(lines[j]) = <<>>

\* C10: in a run that reaches the summary, the total of unique participants
\* equals the number of deduplicated rows, which equals the sum of the
\* per-status counts.
C10_TotalEqualsRowsEqualsStatusSum ==
    (pc = "done" /\ raised = "none") =>
        LET count(s) == IF \E c \in status_counts : c[1] = s
                        THEN (CHOOSE c \in status_counts : c[1] = s)[2]
                        ELSE 0
        IN  /\ total_participants = Len(unique_participants_df)
            /\ Len(unique_participants_df) =
                   count("Full Attended") + count("Partial Attended")
                       + count("Did Not Attend")

=============================================================================
